---- MODULE Spec2Model ----
(***************************************************************************)
(* DealsBot (src/src/bot.py): the orchestration loop run_forever, the      *)
(* per-deal pipeline post_deal, and the collaborators they call (proxy     *)
(* source, discovery, deal store, publisher).  The coroutine is one        *)
(* sequential process; pc is its position.  Every await and every          *)
(* collaborator call is one step, so the external stop signal (Stop) can   *)
(* fall between any two of them.                                           *)
(***************************************************************************)
EXTENDS Integers, Sequences, FiniteSets, TLC

\* ---------------------------------------------------------------- bounds
MaxBatch == 2          \* longest batch a discovery call returns
MaxFails == 2          \* consecFails saturates here (observation only)
MaxUrlLen == 3         \* longest source URL tried on _generate_affiliate_link
MaxTagLen == 1         \* longest affiliate tag tried on it
MaxTimesPosted == 2    \* largest times_posted a stats row carries

\* ------------------------------------------------------------ input sets
\* the candidates discovery can return: A1 at two prices, A2 at one
Prices == {10, 20}
Records == {<<"A1", 10>>, <<"A1", 20>>, <<"A2", 10>>}

\* URLs and affiliate tags are sequences of characters
UrlChars == {"a", "/", "?"}
TagChars == {"x", "?"}
\* deal['url']: A1 has no query string, A2 has one
UrlOf(asin) == IF asin = "A1" THEN <<"a", "/", "a">> ELSE <<"a", "?", "a">>
\* self.config['amazon']['affiliate_id']
AffiliateId == <<"x">>

Deals == {[asin |-> r[1], sale_price |-> r[2], url |-> UrlOf(r[1])] : r \in Records}

RECURSIVE SeqsUpTo(_, _)
SeqsUpTo(S, n) ==
    IF n = 0 THEN {<<>>}
    ELSE LET shorter == SeqsUpTo(S, n - 1)
         IN  shorter \cup {Append(s, x) : s \in {t \in shorter : Len(t) = n - 1}, x \in S}

Batches == SeqsUpTo(Deals, MaxBatch)

\* what db.get_deal_stats may return: None, or a row with times_posted
NoStats == [present |-> FALSE, times_posted |-> 0]
StatsValues ==
    {NoStats} \cup {[present |-> TRUE, times_posted |-> n] : n \in 0..MaxTimesPosted}

Urls == SeqsUpTo(UrlChars, MaxUrlLen)
Tags == SeqsUpTo(TagChars, MaxTagLen) \ {<<>>}

VARIABLES
    pc,            \* position of run_forever
    running,       \* self.running
    store,         \* records held by DealsDatabase: <<asin, sale_price>>
    deals,         \* the batch of the current cycle
    idx,           \* position of the for loop in deals (1-based)
    posted_count,  \* posted_count of the current cycle
    message,       \* the message post_deal rendered for the current deal
    \* ---- observation only (never read by the program's steps)
    event,         \* what the last step did
    observedFalse, \* a check point has read self.running as False
    stopIn,        \* where the flag was cleared: "none", "batch", "elsewhere"
    afterStop,     \* what completed or began after the flag was cleared
    proxyReady,    \* proxy_manager.initialize() has returned
    pruned,        \* db.clean_old_deals() has returned
    cycles,        \* some cycle has started (a proxy acquisition began)
    consecFails,   \* consecutive cycles ended by a cycle-level error
    processed,     \* indices that reached the dedup gate, this cycle
    gate,          \* was the candidate's pair recorded when the gate was asked
    prevPost,      \* outcome of the previous candidate's pipeline, this batch
    pausedSince,   \* a throttle pause completed since prevPost was set
    logged,        \* the count logged by "Posted N new deals", this cycle
    gap,           \* (SpecGap) the pair announced and not persisted in this
                   \* cycle, or (old) in the cycle before the one under way
    postedIdx,     \* indices published and persisted, this cycle
    pauses,        \* between-cycle pauses taken since the last acquisition
    finderArg,     \* what DealsFinder was constructed with
    pure           \* inputs and result of the rendering functions (SpecPure)

vars == <<pc, running, store, deals, idx, posted_count, message, event,
          observedFalse, stopIn, afterStop, proxyReady, pruned, cycles,
          consecFails, processed, gate, prevPost, pausedSince, logged,
          gap, postedIdx, pauses, finderArg, pure>>

NoMessage == [asin |-> "none", sale_price |-> 0, history |-> FALSE,
              blocks |-> <<>>, link |-> <<>>]
NoAfterStop == [pub |-> 0, thr |-> 0, interval |-> FALSE, cooldown |-> FALSE]
NoGap == [pair |-> <<>>, old |-> FALSE]
NoPure == [phase |-> "off", url |-> <<>>, tag |-> <<>>, stats |-> NoStats, out |-> <<>>]

program == <<pc, running, store, deals, idx, posted_count, message, event,
             observedFalse, stopIn, afterStop, proxyReady, pruned, cycles,
             consecFails, processed, gate, prevPost, pausedSince, logged,
             gap, postedIdx, pauses, finderArg>>

BatchPcs == {"for_head", "dedup", "render", "publish", "persist", "throttle"}
WorkPcs == {"get_proxy", "get_deals", "dedup", "render", "publish", "persist"}
PostPcs == {"render", "publish", "persist", "throttle"}

Constructed ==
    /\ pc = "start"
    /\ running = TRUE
    /\ deals = <<>>
    /\ idx = 1
    /\ posted_count = 0
    /\ message = NoMessage
    /\ event = "constructed"
    /\ observedFalse = FALSE
    /\ stopIn = "none"
    /\ afterStop = NoAfterStop
    /\ proxyReady = FALSE
    /\ pruned = FALSE
    /\ cycles = FALSE
    /\ consecFails = 0
    /\ processed = <<>>
    /\ gate = "none"
    /\ prevPost = "none"
    /\ pausedSince = FALSE
    /\ logged = -1
    /\ gap = NoGap
    /\ postedIdx = <<>>
    /\ pauses = <<"start">>
    /\ finderArg = "none"

Init ==
    /\ Constructed
    /\ store \in SUBSET Records
    /\ pure = NoPure

\* ------------------------------------------------------ groups of variables
stopG == <<running, stopIn>>
initG == <<proxyReady, pruned>>
batchG == <<processed, gate, prevPost, pausedSince, logged>>

\* ------------------------------------------------------------ collaborators
\* DealsDatabase.is_duplicate_deal: a record at that identifier and exact price
IsDuplicateDeal(db, asin, price) == <<asin, price>> \in db

\* DealsDatabase.update_deal: upsert, idempotent under identical input
UpdateDeal(db, deal) == db \cup {<<deal.asin, deal.sale_price>>}

\* DealsDatabase.clean_old_deals: removes the records older than the retention
\* window; which records are old is the store's knowledge
CleanOldDeals(db) == {db \ old : old \in SUBSET db}

\* ------------------------------------------------------------- pure helpers
Min(a, b) == IF a < b THEN a ELSE b

\* _format_deal_message: the history block is there iff stats and times_posted > 1
HasHistoryFromFirstPost(stats) == stats.present /\ stats.times_posted >= 1
HasHistory(stats) == stats.present /\ stats.times_posted > 1

Range(f) == {f[i] : i \in DOMAIN f}

\* _generate_affiliate_link: '&tag=' after a URL that holds a '?', else '?tag='
GenerateAffiliateLinkAlwaysQuery(url, affiliate_id) ==
    url \o <<"?", "t", "a", "g", "=">> \o affiliate_id

GenerateAffiliateLink(url, affiliate_id) ==
    IF \E i \in 1..Len(url) : url[i] = "?"
    THEN url \o <<"&", "t", "a", "g", "=">> \o affiliate_id
    ELSE url \o <<"?", "t", "a", "g", "=">> \o affiliate_id

\* the blocks of the f-string, in order; price_history is empty or two lines
PriceHistory(stats) ==
    IF HasHistory(stats) THEN <<"lowest_price", "times_listed">> ELSE <<>>

FormatDealMessage(deal, stats) ==
    [asin |-> deal.asin, sale_price |-> deal.sale_price, history |-> HasHistory(stats),
     blocks |-> <<"headline", "title", "sale_price", "original", "save">>
                \o PriceHistory(stats) \o <<"buy_now", "hashtags", "posted">>,
     link |-> GenerateAffiliateLink(deal.url, AffiliateId)]

\* ------------------------------------------------- observation bookkeeping
CountAfterStop(field) ==
    afterStop' = IF running THEN afterStop
                 ELSE [afterStop EXCEPT ![field] = @ + 1]

FlagAfterStop(field) ==
    afterStop' = IF running THEN afterStop
                 ELSE [afterStop EXCEPT ![field] = TRUE]

\* --------------------------------------------------- decisions of the code
\* while self.running:
LoopConditionAlways(flag) == TRUE
LoopCondition(flag) == flag

\* if not self.running: break  -- where the break lands
BreakTargetPass == "dedup"
BreakTarget == "log_posted"

\* if not self.db.is_duplicate_deal(...): post
ShouldPostAlways(dup) == TRUE
ShouldPostInverted(dup) == dup
ShouldPost(dup) == ~dup

\* if self.running: sleep(update_interval)
SleepConditionNever(flag) == FALSE
SleepCondition(flag) == flag

\* for deal in deals: the next element
NextIdxStuck(i) == i
NextIdx(i) == i + 1

\* await self.initialize() stands before the try: its failure leaves run_forever
OnInitErrorCaught(what) ==
    /\ pc' = "cooldown"
    /\ event' = what

OnInitError(what) ==
    /\ pc' = "raised"
    /\ event' = what

\* except Exception (main loop): log, then sleep(60)
OnCycleErrorPropagates(what) ==
    /\ pc' = "raised"
    /\ event' = what
    /\ consecFails' = Min(consecFails + 1, MaxFails)
    /\ afterStop' = afterStop
    /\ UNCHANGED <<store, deals, idx, posted_count, message>>

OnCycleError(what) ==
    /\ pc' = "cooldown"
    /\ event' = what
    /\ consecFails' = Min(consecFails + 1, MaxFails)
    /\ FlagAfterStop("cooldown")
    /\ UNCHANGED <<store, deals, idx, posted_count, message>>

\* post_deal's except clauses: log, return False; the caller goes on with the
\* next deal, no count, no pause
PostFailedEscapes(what) ==
    /\ pc' = "cooldown"
    /\ message' = NoMessage
    /\ event' = what
    /\ prevPost' = what
    /\ pausedSince' = FALSE
    /\ UNCHANGED <<store, deals, idx, posted_count>>

PostFailedUpserts(what) ==
    /\ pc' = "for_head"
    /\ idx' = NextIdx(idx)
    /\ message' = NoMessage
    /\ event' = what
    /\ prevPost' = what
    /\ pausedSince' = FALSE
    /\ store' = UpdateDeal(store, deals[idx])
    /\ UNCHANGED <<deals, posted_count>>

PostFailedCounts(what) ==
    /\ pc' = "for_head"
    /\ idx' = NextIdx(idx)
    /\ message' = NoMessage
    /\ event' = what
    /\ prevPost' = what
    /\ pausedSince' = FALSE
    /\ posted_count' = posted_count + 1
    /\ UNCHANGED <<store, deals>>

PostFailed(what) ==
    /\ pc' = "for_head"
    /\ idx' = NextIdx(idx)
    /\ message' = NoMessage
    /\ event' = what
    /\ prevPost' = what
    /\ pausedSince' = FALSE
    /\ UNCHANGED <<store, deals, posted_count>>

\* is_duplicate_deal raises: the call is outside post_deal's try, so the
\* exception leaves the for loop and reaches run_forever's handler
DedupFailedPerDeal(what) ==
    /\ pc' = "for_head"
    /\ idx' = NextIdx(idx)
    /\ event' = what
    /\ prevPost' = "none"
    /\ pausedSince' = FALSE
    /\ UNCHANGED <<store, deals, posted_count, message, afterStop, consecFails>>

DedupFailed(what) ==
    /\ OnCycleError(what)
    /\ prevPost' = "none"
    /\ pausedSince' = FALSE

\* ------------------------------------------------------------------ steps
Cur == deals[idx]

\* run_forever: "Starting Deals Bot...", initialize(): proxy_manager.initialize()
InitProxy ==
    /\ pc = "start"
    /\ \/ /\ pc' = "init_prune"
          /\ proxyReady' = TRUE
          /\ event' = "proxy_ready"
       \/ /\ OnInitError("init_proxy_failed")
          /\ proxyReady' = proxyReady
    /\ UNCHANGED <<store, deals, idx, posted_count, message, stopG, afterStop,
                   observedFalse, pruned, cycles, consecFails, batchG>>
    /\ UNCHANGED <<gap, postedIdx, pauses, finderArg, pure>>

\* initialize(): db.clean_old_deals(retention_days)
InitPrune ==
    /\ pc = "init_prune"
    /\ \/ /\ store' \in CleanOldDeals(store)
          /\ pc' = "loop_head"
          /\ pruned' = TRUE
          /\ event' = "pruned"
       \/ /\ OnInitError("init_prune_failed")
          /\ store' = store
          /\ pruned' = pruned
    /\ UNCHANGED <<deals, idx, posted_count, message, stopG, afterStop,
                   observedFalse, proxyReady, cycles, consecFails, batchG>>
    /\ UNCHANGED <<gap, postedIdx, pauses, finderArg, pure>>

\* while self.running: ... / "Bot shutdown complete."
LoopHeadStep ==
    /\ pc = "loop_head"
    /\ IF LoopCondition(running)
       THEN /\ pc' = "get_proxy"
            /\ cycles' = TRUE
            /\ event' = "cycle_started"
            /\ observedFalse' = observedFalse
       ELSE /\ pc' = "done"
            /\ cycles' = cycles
            /\ event' = "shutdown_logged"
            /\ observedFalse' = TRUE
    /\ UNCHANGED <<store, deals, idx, posted_count, message, stopG, afterStop,
                   initG, consecFails, batchG>>
    /\ UNCHANGED <<postedIdx, pauses, finderArg, pure>>

LoopHead == LoopHeadStep /\ gap' = gap

\* proxy = await self.proxy_manager.get_working_proxy()
GetProxy ==
    /\ pc = "get_proxy"
    /\ \/ /\ pc' = "get_deals"
          /\ event' = "proxy_acquired"
          /\ finderArg' = "session"
          /\ UNCHANGED <<store, deals, idx, posted_count, message, afterStop,
                         consecFails>>
       \/ /\ OnCycleError("proxy_failed")
          /\ finderArg' = finderArg
    /\ UNCHANGED <<stopG, observedFalse, initG, cycles, batchG>>
    /\ pauses' = <<>>
    /\ UNCHANGED <<gap, postedIdx, pure>>

\* deals = await deals_finder.get_deals(); posted_count = 0
GetDealsStep ==
    /\ pc = "get_deals"
    /\ \/ /\ \E batch \in Batches : deals' = batch
          /\ idx' = 1
          /\ posted_count' = 0
          /\ pc' = "for_head"
          /\ event' = "discovered"
          /\ processed' = <<>>
          /\ gate' = "none"
          /\ prevPost' = "none"
          /\ pausedSince' = FALSE
          /\ logged' = -1
          /\ postedIdx' = <<>>
          /\ UNCHANGED <<store, message, afterStop, consecFails>>
       \/ /\ OnCycleError("discovery_failed")
          /\ UNCHANGED <<batchG, postedIdx>>
    /\ UNCHANGED <<stopG, observedFalse, initG, cycles>>
    /\ finderArg' = "none"
    /\ UNCHANGED <<pauses, pure>>

GetDeals == GetDealsStep /\ gap' = gap

\* for deal in deals: if not self.running: break
ForHead ==
    /\ pc = "for_head"
    /\ IF idx > Len(deals)
       THEN /\ pc' = "log_posted"
            /\ event' = "batch_exhausted"
            /\ UNCHANGED <<observedFalse, processed, gate>>
       ELSE IF ~running
       THEN /\ pc' = BreakTarget
            /\ event' = "break"
            /\ observedFalse' = TRUE
            /\ UNCHANGED <<processed, gate>>
       ELSE /\ pc' = "dedup"
            /\ event' = "gate_reached"
            /\ observedFalse' = observedFalse
            /\ processed' = Append(processed, idx)
            /\ gate' = "pending"
    /\ UNCHANGED <<store, deals, idx, posted_count, message, stopG, afterStop,
                   initG, cycles, consecFails, prevPost, pausedSince, logged>>
    /\ UNCHANGED <<gap, postedIdx, pauses, finderArg, pure>>

\* if not self.db.is_duplicate_deal(deal['asin'], deal['sale_price']):
Dedup ==
    /\ pc = "dedup"
    /\ gate' = IF <<Cur.asin, Cur.sale_price>> \in store THEN "recorded" ELSE "unrecorded"
    /\ \/ DedupFailed("dedup_failed")
       \/ /\ IF ShouldPost(IsDuplicateDeal(store, Cur.asin, Cur.sale_price))
             THEN /\ pc' = "render"
                  /\ idx' = idx
                  /\ event' = "not_duplicate"
                  /\ UNCHANGED <<prevPost, pausedSince>>
             ELSE /\ pc' = "for_head"
                  /\ idx' = NextIdx(idx)
                  /\ event' = "skipped_duplicate"
                  /\ prevPost' = "skipped"
                  /\ pausedSince' = FALSE
          /\ UNCHANGED <<store, deals, posted_count, message, afterStop, consecFails>>
    /\ UNCHANGED <<stopG, observedFalse, initG, cycles, processed, logged>>
    /\ UNCHANGED <<gap, postedIdx, pauses, finderArg, pure>>

\* post_deal: message = self._format_deal_message(deal)
Render ==
    /\ pc = "render"
    /\ \/ /\ \E stats \in StatsValues : message' = FormatDealMessage(Cur, stats)
          /\ pc' = "publish"
          /\ event' = "rendered"
          /\ UNCHANGED <<store, deals, idx, posted_count, prevPost, pausedSince>>
       \/ PostFailed("render_failed")
    /\ UNCHANGED <<stopG, afterStop, observedFalse, initG, cycles, consecFails,
                   processed, gate, logged>>
    /\ UNCHANGED <<gap, postedIdx, pauses, finderArg, pure>>

\* post_deal: await self.bot.send_message(...)
Publish ==
    /\ pc = "publish"
    /\ \/ /\ pc' = "persist"
          /\ event' = "published"
          /\ UNCHANGED <<store, deals, idx, posted_count, message, prevPost, pausedSince>>
       \/ PostFailed("delivery_failed")
       \/ PostFailed("publish_failed")
    /\ CountAfterStop("pub")
    /\ UNCHANGED <<stopG, observedFalse, initG, cycles, consecFails,
                   processed, gate, logged>>
    /\ UNCHANGED <<gap, postedIdx, pauses, finderArg, pure>>

\* post_deal: self.db.update_deal(deal); return True; then posted_count += 1
PersistStep ==
    /\ pc = "persist"
    /\ \/ /\ store' = UpdateDeal(store, Cur)
          /\ posted_count' = posted_count + 1
          /\ pc' = "throttle"
          /\ message' = NoMessage
          /\ event' = "persisted"
          /\ prevPost' = "posted"
          /\ pausedSince' = FALSE
          /\ postedIdx' = Append(postedIdx, idx)
          /\ UNCHANGED <<deals, idx>>
       \/ /\ PostFailed("persist_failed")
          /\ postedIdx' = postedIdx
    /\ UNCHANGED <<stopG, afterStop, observedFalse, initG, cycles, consecFails,
                   processed, gate, logged>>
    /\ UNCHANGED <<pauses, finderArg, pure>>

Persist == PersistStep /\ gap' = gap

\* await asyncio.sleep(request_delay.min) returns
Throttle ==
    /\ pc = "throttle"
    /\ pc' = "for_head"
    /\ idx' = NextIdx(idx)
    /\ pausedSince' = TRUE
    /\ event' = "throttled"
    /\ CountAfterStop("thr")
    /\ UNCHANGED <<store, deals, posted_count, message, stopG, observedFalse,
                   initG, cycles, consecFails, processed, gate, prevPost, logged>>
    /\ UNCHANGED <<gap, postedIdx, pauses, finderArg, pure>>

\* logger.info(f"Posted {posted_count} new deals")
LogPosted ==
    /\ pc = "log_posted"
    /\ pc' = "check_sleep"
    /\ logged' = posted_count
    /\ consecFails' = 0
    /\ event' = "count_logged"
    /\ prevPost' = "none"
    /\ pausedSince' = FALSE
    /\ UNCHANGED <<store, deals, idx, posted_count, message, stopG, afterStop,
                   observedFalse, initG, cycles, processed, gate>>
    /\ UNCHANGED <<gap, postedIdx, pauses, finderArg, pure>>

\* if self.running: await asyncio.sleep(update_interval_minutes * 60)
CheckSleep ==
    /\ pc = "check_sleep"
    /\ IF SleepCondition(running)
       THEN /\ pc' = "interval_sleep"
            /\ event' = "interval_begun"
            /\ observedFalse' = observedFalse
            /\ FlagAfterStop("interval")
       ELSE /\ pc' = "loop_head"
            /\ event' = "interval_skipped"
            /\ observedFalse' = TRUE
            /\ afterStop' = afterStop
    /\ UNCHANGED <<store, deals, idx, posted_count, message, stopG, initG,
                   cycles, consecFails, batchG>>
    /\ postedIdx' = <<>>
    /\ UNCHANGED <<gap, pauses, finderArg, pure>>

\* the inter-cycle sleep returns
IntervalSleep ==
    /\ pc = "interval_sleep"
    /\ pc' = "loop_head"
    /\ event' = "interval_done"
    /\ UNCHANGED <<store, deals, idx, posted_count, message, stopG, afterStop,
                   observedFalse, initG, cycles, consecFails, batchG>>
    /\ pauses' = Append(pauses, "interval")
    /\ UNCHANGED <<gap, postedIdx, finderArg, pure>>

CooldownRearms ==
    /\ pc = "cooldown"
    /\ pc' = "loop_head"
    /\ event' = "cooldown_done"
    /\ running' = TRUE
    /\ UNCHANGED <<store, deals, idx, posted_count, message, stopIn, afterStop,
                   observedFalse, initG, cycles, consecFails, batchG>>
    /\ pauses' = Append(pauses, "cooldown")
    /\ postedIdx' = <<>>
    /\ UNCHANGED <<gap, finderArg, pure>>

\* except Exception: await asyncio.sleep(60) returns
Cooldown ==
    /\ pc = "cooldown"
    /\ pc' = "loop_head"
    /\ event' = "cooldown_done"
    /\ UNCHANGED <<store, deals, idx, posted_count, message, stopG, afterStop,
                   observedFalse, initG, cycles, consecFails, batchG>>
    /\ pauses' = Append(pauses, "cooldown")
    /\ postedIdx' = <<>>
    /\ UNCHANGED <<gap, finderArg, pure>>

\* the external stop signal: self.running = False, set once
Stop ==
    /\ running
    /\ running' = FALSE
    /\ stopIn' = IF pc \in BatchPcs THEN "batch" ELSE "elsewhere"
    /\ UNCHANGED <<pc, store, deals, idx, posted_count, message, event,
                   observedFalse, afterStop, initG, cycles, consecFails, batchG>>
    /\ UNCHANGED <<gap, postedIdx, pauses, finderArg, pure>>

Step ==
    \/ InitProxy \/ InitPrune \/ LoopHead \/ GetProxy \/ GetDeals \/ ForHead
    \/ Dedup \/ Render \/ Publish \/ Persist \/ Throttle \/ LogPosted
    \/ CheckSleep \/ IntervalSleep \/ Cooldown

Next == Step \/ Stop

Spec == Init /\ [][Next]_vars

\* every call and every pause of the coroutine eventually completes
FairSpec == Spec /\ WF_vars(Step)

\* ---- the same program, with the announced-but-not-recorded pair observed
PersistGap ==
    /\ PersistStep
    /\ gap' = IF event' = "persist_failed"
              THEN [pair |-> <<Cur.asin, Cur.sale_price>>, old |-> FALSE]
              ELSE IF gap.pair = <<Cur.asin, Cur.sale_price>> THEN NoGap ELSE gap

GetDealsGap ==
    /\ GetDealsStep
    /\ gap' = IF event' = "discovered" /\ gap # NoGap
              THEN [gap EXCEPT !.old = TRUE] ELSE gap

LoopHeadGap ==
    /\ LoopHeadStep
    /\ gap' = IF gap.old THEN NoGap ELSE gap

StepGap ==
    \/ InitProxy \/ InitPrune \/ LoopHeadGap \/ GetProxy \/ GetDealsGap \/ ForHead
    \/ Dedup \/ Render \/ Publish \/ PersistGap \/ Throttle \/ LogPosted
    \/ CheckSleep \/ IntervalSleep \/ Cooldown

SpecGap == Init /\ [][StepGap \/ Stop]_vars

\* ---- the rendering functions alone, applied to inputs drawn at the start
InitPure ==
    /\ Constructed
    /\ store = {}
    /\ pure \in {[phase |-> "in", url |-> u, tag |-> t, stats |-> st, out |-> <<>>] :
                    u \in Urls, t \in Tags, st \in StatsValues}

\* _generate_affiliate_link(url) under the configured affiliate_id
ApplyLink ==
    /\ pure.phase = "in"
    /\ pure' = [pure EXCEPT !.phase = "link",
                             !.out = GenerateAffiliateLink(pure.url, pure.tag)]
    /\ UNCHANGED program

\* _format_deal_message(deal) with the stats the store returned
ApplyFormat ==
    /\ pure.phase = "in"
    /\ pure' = [pure EXCEPT !.phase = "message",
                             !.out = FormatDealMessage(
                                 [asin |-> "A1", sale_price |-> 10, url |-> pure.url],
                                 pure.stats)]
    /\ UNCHANGED program

SpecPure == InitPure /\ [][ApplyLink \/ ApplyFormat]_vars

\* ================================================================ claims
FailEvents == {"render_failed", "delivery_failed", "publish_failed", "persist_failed"}

\* C1 (cooperative shutdown, no new work): once one of the three check points
\* (loop head, head of a per-deal iteration, before the inter-cycle sleep) has
\* read the run flag as False, run_forever is never again in a proxy
\* acquisition, a discovery call, a dedup check, a render, a publish or a
\* persist, and the observation raises nothing (neither the error handler nor
\* a propagated exception follows it).
C1_NoNewWorkAfterObservedStop ==
    observedFalse => pc \notin WorkPcs \cup {"cooldown", "raised"}

\* the flag was read as False at the head of a per-deal iteration with
\* candidates left in the batch
C1_Witness ==
    /\ observedFalse
    /\ event = "break"
    /\ idx <= Len(deals)
    /\ stopIn = "batch"

\* C2 (shutdown latency bound): when the flag is cleared at any point of a
\* batch, then from there on at most one publish and at most one throttle pause
\* complete, and neither the inter-cycle pause nor the fixed cooldown begins.
C2_ShutdownLatency ==
    stopIn = "batch" =>
        /\ afterStop.pub <= 1
        /\ afterStop.thr <= 1
        /\ ~afterStop.interval
        /\ ~afterStop.cooldown

\* C3 (termination): under FairSpec, once the flag is cleared run_forever
\* eventually has logged "Bot shutdown complete." and returned, or has left by
\* the exception of a failed initialization; that exception is impossible once
\* initialization has completed; and once returned it stays returned: no
\* further cycle, no further change of the store or the batch.
C3_Termination ==
    /\ ~running ~> (pc = "raised" \/ (pc = "done" /\ event = "shutdown_logged"))
    /\ [](pc = "raised" => ~pruned)
    /\ [][pc = "done" => pc' = "done" /\ UNCHANGED <<store, deals, idx, posted_count>>]_vars

\* run_forever returned after a stop that fell in the middle of a batch
C3_Witness ==
    /\ pc = "done"
    /\ event = "shutdown_logged"
    /\ stopIn = "batch"
    /\ cycles

\* C4 (cycle resilience): a failed proxy acquisition or discovery call lands in
\* the fixed cooldown, never in a return or a propagated exception (which only
\* a failed initialization produces); the cooldown ends at the loop head, and
\* the loop head, while the flag is true, starts a cycle with a proxy
\* acquisition, however many cycles failed in a row.
C4_CycleResilience ==
    /\ [](event \in {"proxy_failed", "discovery_failed"} => pc = "cooldown" /\ pruned)
    /\ [](pc = "raised" => ~pruned /\ ~cycles)
    /\ [][pc = "cooldown" /\ pc' # pc => pc' = "loop_head"]_vars
    /\ [][pc = "loop_head" /\ running /\ pc' # pc => pc' = "get_proxy"]_vars

\* a new cycle is under way right after MaxFails or more failed ones
C4_Witness ==
    /\ consecFails >= 2
    /\ pc = "get_proxy"
    /\ event = "cycle_started"

\* C5 (throttle only on success): when the next candidate's dedup check
\* starts, a throttle pause has completed since the previous candidate iff
\* that candidate's publish was delivered.
C5_ThrottleOnlyOnSuccess ==
    pc = "dedup" =>
        /\ prevPost \in {"posted", "persist_failed"} => pausedSince
        /\ prevPost = "delivery_failed" => ~pausedSince

\* C6 (dedup idempotence): a candidate whose (identifier, sale_price) pair is
\* recorded in the store when it reaches the dedup gate is never rendered,
\* published, persisted or paused for, and the gate step leaves the posted
\* count and the store as they are.
C6_DedupIdempotence ==
    /\ [](gate = "recorded" => pc \notin PostPcs)
    /\ [][pc = "dedup" /\ gate' = "recorded" =>
            /\ pc' \in {"for_head", "cooldown"}
            /\ posted_count' = posted_count
            /\ store' = store
            /\ message' = message]_vars

\* a recorded candidate was skipped after an earlier candidate of the same
\* batch had been posted
C6_Witness ==
    /\ gate = "recorded"
    /\ event = "skipped_duplicate"
    /\ pc = "for_head"
    /\ posted_count = 1

PriceDropAtGate ==
    /\ pc = "dedup"
    /\ <<Cur.asin, Cur.sale_price>> \notin store
    /\ \E p \in Prices : p # Cur.sale_price /\ <<Cur.asin, p>> \in store

\* C7 (price-drop re-announce): a candidate at the gate whose identifier is
\* recorded at another price and not at its own is not skipped: whenever the
\* duplicate query answers, the next step is the render of that same candidate.
C7_PriceDropReannounce ==
    [][PriceDropAtGate /\ pc' # pc /\ event' # "dedup_failed" =>
            /\ pc' = "render"
            /\ idx' = idx
            /\ deals' = deals]_vars

\* the candidate being rendered is recorded at another price only
C7_Witness ==
    /\ pc = "render"
    /\ event = "not_duplicate"
    /\ <<Cur.asin, Cur.sale_price>> \notin store
    /\ \E p \in Prices : p # Cur.sale_price /\ <<Cur.asin, p>> \in store

\* C8 (per-deal failure containment): a failed render, publish or persist
\* makes post_deal return False: the loop is back at its head on the next
\* candidate of the same batch, the posted count, the store and the failure
\* streak are untouched, no cooldown begins, and with the flag still true the
\* next candidate reaches the dedup gate.
C8_PerDealContainment ==
    /\ [](event \in FailEvents => pc = "for_head")
    /\ [][event' \in FailEvents /\ pc \in {"render", "publish", "persist"} =>
            /\ idx' = idx + 1
            /\ deals' = deals
            /\ posted_count' = posted_count
            /\ store' = store
            /\ consecFails' = consecFails]_vars
    /\ [][pc = "for_head" /\ idx <= Len(deals) /\ running /\ pc' # pc => pc' = "dedup"]_vars

\* the candidate after a failed one is at the gate, in the same cycle
C8_Witness ==
    /\ pc = "dedup"
    /\ prevPost \in FailEvents
    /\ idx = 2
    /\ posted_count = 0

\* C9 (initialization ordering and fatality): pruning has only happened after
\* the proxy source became ready, every position of the loop has both behind
\* it, and a failed step leaves run_forever for good with no cycle started,
\* no cooldown and no failure handled; after a failed proxy initialization the
\* store was never pruned.
C9_InitOrderingFatal ==
    /\ [](pruned => proxyReady)
    /\ [](pc = "init_prune" => proxyReady /\ ~pruned)
    /\ [](pc \notin {"start", "init_prune", "raised"} => proxyReady /\ pruned)
    /\ [](event \in {"init_proxy_failed", "init_prune_failed"} =>
            pc = "raised" /\ ~cycles /\ ~pruned /\ consecFails = 0)
    /\ [](event = "init_proxy_failed" => ~proxyReady)
    /\ [][pc = "raised" => pc' = "raised" /\ store' = store]_vars

\* pruning failed after the proxy source had become ready
C9_Witness ==
    /\ pc = "raised"
    /\ event = "init_prune_failed"
    /\ proxyReady

\* C10 (sequential in-order pipeline): the candidates that reach the dedup
\* gate in a cycle are 1, 2, 3, ... in the batch's order, each once; the
\* candidate in the pipeline is the last one that reached the gate; the loop
\* moves on by exactly one candidate and only from a finished step of the
\* current one; the gate is entered only from the loop head; the batch changes
\* only by a discovery call.
C10_SequentialInOrder ==
    /\ [](\A i \in 1..Len(processed) : processed[i] = i)
    /\ [](pc \in {"dedup"} \cup PostPcs =>
            /\ Len(processed) > 0
            /\ processed[Len(processed)] = idx
            /\ idx <= Len(deals))
    /\ [][idx' # idx =>
            /\ pc' = "for_head"
            /\ \/ pc = "get_deals" /\ idx' = 1
               \/ pc \in {"dedup"} \cup PostPcs /\ idx' = idx + 1]_vars
    /\ [][pc' = "dedup" /\ pc # "dedup" => pc = "for_head"]_vars
    /\ [][deals' # deals => pc = "get_deals"]_vars

\* the second candidate is being published after the first was posted and
\* its throttle pause completed
C10_Witness ==
    /\ processed = <<1, 2>>
    /\ pc = "publish"
    /\ prevPost = "posted"
    /\ pausedSince

\* C11 (announced-but-not-recorded gap): when a deal was published and its
\* persist did not complete, a candidate of the next cycle with the same
\* identifier is published again only at a price other than the one announced.
C11_GapReannounceOnlyOnPriceChange ==
    (event = "published" /\ gap.old /\ gap.pair[1] = Cur.asin) =>
        Cur.sale_price # gap.pair[2]

\* C12 (affiliate link join rule): for every URL u and tag t the link is u,
\* unchanged, then '&' if u holds a '?' anywhere and '?' otherwise, then
\* 'tag=', then t, and nothing else.
C12_AffiliateLinkJoin ==
    pure.phase = "link" =>
        LET u == pure.url
            t == pure.tag
            r == pure.out
        IN  /\ Len(r) = Len(u) + 5 + Len(t)
            /\ SubSeq(r, 1, Len(u)) = u
            /\ r[Len(u) + 1] = (IF "?" \in Range(u) THEN "&" ELSE "?")
            /\ SubSeq(r, Len(u) + 2, Len(u) + 5) = <<"t", "a", "g", "=">>
            /\ SubSeq(r, Len(u) + 6, Len(r)) = t

\* a URL whose '?' is not its last character got '&tag='
C12_Witness ==
    /\ pure.phase = "link"
    /\ pure.url = <<"a", "?", "a">>
    /\ pure.out = <<"a", "?", "a", "&", "t", "a", "g", "=">> \o pure.tag

\* C13 (history block gating): the rendered message holds the 'Lowest Price'
\* and 'Times Listed' lines iff the stats are present and times_posted > 1;
\* with no stats, or times_posted 0 or 1, it holds neither.
C13_HistoryBlockGating ==
    pure.phase = "message" =>
        LET lines == Range(pure.out.blocks)
            shown == pure.stats.present /\ pure.stats.times_posted > 1
        IN  /\ "lowest_price" \in lines <=> shown
            /\ "times_listed" \in lines <=> shown
            /\ pure.out.history <=> shown

\* stats with times_posted = 2: the block is in the message
C13_Witness ==
    /\ pure.phase = "message"
    /\ pure.stats.present
    /\ pure.stats.times_posted = 2
    /\ "lowest_price" \in Range(pure.out.blocks)

\* C14 (persist follows publish): update_deal is reached only with the
\* publish of the same deal just succeeded; the store grows only there, by
\* that deal's pair, together with the count increment and followed by the
\* throttle pause; a failed render or publish leaves the store as it was.
C14_PersistFollowsPublish ==
    /\ [](pc = "persist" =>
            /\ event = "published"
            /\ message.asin = Cur.asin
            /\ message.sale_price = Cur.sale_price)
    /\ [](pc = "throttle" => event = "persisted")
    /\ [][(store' # store /\ pc # "init_prune") =>
            /\ pc = "persist"
            /\ store' = store \cup {<<Cur.asin, Cur.sale_price>>}
            /\ posted_count' = posted_count + 1
            /\ pc' = "throttle"]_vars
    /\ [][event' \in {"render_failed", "delivery_failed", "publish_failed"} =>
            store' = store]_vars

\* a deal published, then recorded and counted, the throttle pause next
C14_Witness ==
    /\ pc = "throttle"
    /\ event = "persisted"
    /\ posted_count = 1
    /\ <<Cur.asin, Cur.sale_price>> \in store

\* C15 (posted count): the count is 0 when the batch arrives; through the
\* batch and at the log line it is the number of candidates of this batch
\* published and persisted; skipped duplicates and failed posts leave it
\* alone; it never exceeds the batch length.
C15_PostedCount ==
    /\ [](event = "discovered" => posted_count = 0)
    /\ [](pc \in BatchPcs \cup {"log_posted", "check_sleep"} =>
            /\ posted_count = Len(postedIdx)
            /\ Cardinality(Range(postedIdx)) = Len(postedIdx)
            /\ Range(postedIdx) \subseteq Range(processed)
            /\ posted_count <= Len(deals))
    /\ [](pc = "check_sleep" => logged = Len(postedIdx))
    /\ [][event' \in {"skipped_duplicate", "render_failed", "delivery_failed",
                      "publish_failed", "persist_failed"} =>
            posted_count' = posted_count]_vars

\* two candidates, the first failed, the second posted: the log line says 1
C15_Witness ==
    /\ pc = "check_sleep"
    /\ Len(deals) = 2
    /\ postedIdx = <<2>>
    /\ logged = 1

\* C16 (fresh proxy per cycle), the part about the handle: discovery is made
\* with the handle that this cycle's acquisition returned.
C16_DiscoveryUsesAcquiredHandle == pc = "get_deals" => finderArg = "proxy"

\* C16, the rest: one acquisition per cycle, completed before discovery, and
\* no discovery in a cycle whose acquisition failed.
C16_AcquireBeforeDiscover ==
    /\ [](pc = "get_deals" => event = "proxy_acquired" /\ finderArg # "none")
    /\ [](pc = "get_proxy" => event = "cycle_started")
    /\ [][event' = "proxy_failed" /\ pc = "get_proxy" => pc' = "cooldown"]_vars
    /\ [][pc' = "get_proxy" /\ pc # "get_proxy" => pc = "loop_head"]_vars

\* C17 (dedup-check failure is cycle-level): when is_duplicate_deal raises
\* for candidate k, the coroutine is in the cooldown pause with no candidate
\* after k taken up, no count logged and no interval pause taken; what the
\* batch persisted before k is still in the store; the cooldown then ends at
\* the loop head with all of that untouched.
C17_DedupFailureEndsCycle ==
    /\ [](event = "dedup_failed" =>
            /\ pc = "cooldown"
            /\ processed # <<>>
            /\ processed[Len(processed)] = idx
            /\ Range(processed) \subseteq 1..idx
            /\ logged = -1
            /\ pauses = <<>>
            /\ \A i \in Range(postedIdx) :
                  <<deals[i].asin, deals[i].sale_price>> \in store)
    /\ [][(event = "dedup_failed" /\ pc' # pc) =>
            /\ pc' = "loop_head"
            /\ pauses' = <<"cooldown">>
            /\ UNCHANGED <<store, processed, logged, posted_count, deals>>]_vars
    /\ [][(event = "cooldown_done" /\ pc' # pc) =>
            /\ pc' \in {"get_proxy", "done"}
            /\ UNCHANGED <<store, processed, logged, pauses>>]_vars

\* the query raised for the first of two candidates
C17_Witness ==
    /\ event = "dedup_failed"
    /\ pc = "cooldown"
    /\ Len(deals) = 2
    /\ idx = 1

\* C18 (run flag frame): the flag is true after construction; a step that
\* changes it is the stop signal alone (true to false, the coroutine's
\* position, data and last step untouched), so no step of initialize,
\* post_deal, rendering, the loop body or the handlers writes it, and once
\* false it stays false.
C18_RunFlagFrame ==
    /\ [](stopIn = "none" => running)
    /\ [][running' # running =>
            /\ running /\ ~running'
            /\ UNCHANGED <<pc, event, store, deals, idx, posted_count, message>>]_vars
    /\ [][~running => ~running']_vars

\* the stop arrived inside a batch and the cycle-level handler ran after it
C18_Witness ==
    /\ ~running
    /\ stopIn = "batch"
    /\ event = "cooldown_done"
    /\ pc = "loop_head"

\* C19 (exactly one pause between cycles): when a proxy acquisition begins,
\* exactly one between-cycle pause was taken since the previous one (none
\* before the first): the cooldown if the previous cycle ended in a
\* cycle-level error, the interval if it ran to its log line; never both,
\* never none.
C19_OnePauseBetweenCycles ==
    /\ Len(pauses) <= 1
    /\ pc = "get_proxy" =>
          \/ pauses = <<"start">> /\ consecFails = 0
          \/ pauses = <<IF consecFails > 0 THEN "cooldown" ELSE "interval">>

\* a cycle that ended in an error, the cooldown taken, the next one starting
C19_Witness ==
    /\ pc = "get_proxy"
    /\ pauses = <<"cooldown">>
    /\ consecFails = 1

====
